---- MODULE Spec2Model ----
(***************************************************************************)
(* MemoryDatastore (src/unnamed/part_000): the in-memory Datastore of      *)
(* polar-bookshelf.  One action per public method; every action is one     *)
(* uninterrupted run of JavaScript (a job), so a method without a real     *)
(* suspension point is a single step.                                      *)
(***************************************************************************)
EXTENDS Integers, Sequences, FiniteSets, TLC

VARIABLES
    docMetas,   \* this.docMetas: own properties in insertion order, <<[k, v], ...>>
    files,      \* this.files: key string -> FileData (its key order is never read)
    reads,      \* writeFile calls suspended in `await Files.readFileAsync(...)`
    lastOp,     \* the call that completed last: its arguments and its outcome
    committed,  \* history: fingerprint -> payload of the last write whose
                \* mutation resolved `committed`
    stored      \* history: <<backend, ref>> -> [buffer, meta] of the last
                \* writeFile completed for that pair and not followed by a
                \* deleteFile of the pair

vars == <<docMetas, files, reads, lastOp, committed, stored>>

\* DialogWindowClient.create (src/web/js/ui/dialog_window/DialogWindowClient.ts)
VARIABLES
    createCalls,    \* each call of create: where it stands, and its locals
    onceListeners,  \* ipcRenderer: the channels that hold a one-shot listener
    ipcMain,        \* messages sent to the main process, not yet handled
    ipcRenderer,    \* messages sent to this renderer, not yet emitted
    others,         \* how many messages other senders have posted so far
    ipcLog          \* history: what happened on the channels, in order

dialogVars == <<createCalls, onceListeners, ipcMain, ipcRenderer, others, ipcLog>>

\* CaptureController.startCapture (src/web/js/capture/controller/CaptureController.js)
VARIABLES
    captures,       \* each call of startCapture: where it stands
    didFinishLoad,  \* webContents: the calls whose one-shot 'did-finish-load'
                    \* listener is registered
    loading,        \* the URL the window is loading, if any
    captureLog      \* history: listener registrations, loads and events, in order

captureVars == <<captures, didFinishLoad, loading, captureLog>>

allVars == <<vars, dialogVars, captureVars>>

(***************************************************************************)
(* JavaScript values, tagged with what `typeof` answers.                   *)
(***************************************************************************)
Str(s) == [t |-> "string", v |-> s]
Num(s) == [t |-> "number", v |-> s]
Undefined == [t |-> "undefined", v |-> ""]

\* typeof x
TypeOf(x) == x.t

\* `${x}` inside a template literal: undefined prints as the word undefined.
TemplateString(x) == IF x.t = "undefined" THEN "undefined" ELSE x.v

(***************************************************************************)
(* Inputs.  Fingerprints are content hashes: none of them is the name of   *)
(* a property every JavaScript object inherits (constructor, toString,     *)
(* __proto__, ...), for which `in` and `[]` on a plain object answer from  *)
(* the prototype instead of from the stored records.                       *)
(***************************************************************************)
Fingerprints == {"0x001", "0x002"}

Payloads == {Str("d1"), Str("d2")}

\* What a caller can hand to write as `data`; the last is not a string.
WriteData == Payloads \cup {Num("7")}

Backends == {"stash", "image"}

\* FileRef: {name}; the last one is malformed (it has no name).
FileRefs == {[name |-> Str("x")], [name |-> Undefined]}

\* The (backend, ref) pairs the file operations are called with: one name in
\* both backends, and the malformed ref.
FileTargets == {[backend |-> "stash", ref |-> [name |-> Str("x")]],
                [backend |-> "image", ref |-> [name |-> Str("x")]],
                [backend |-> "stash", ref |-> [name |-> Undefined]]}

\* DocMetaFileRef.docFile: absent, or a FileRef.
NoDocFile == [name |-> Undefined, absent |-> TRUE]
DocFiles == {NoDocFile, [name |-> Str("x"), absent |-> FALSE]}

Obj(s) == [t |-> "object", v |-> s]

\* (data, meta) of writeFile.  data: a string, a Buffer, or a FileHandle to a
\* file on disk; meta: omitted (the parameter's default applies), or given.
FileArgs == {[data |-> [kind |-> "string", v |-> "c1"], meta |-> Undefined],
             [data |-> [kind |-> "Buffer", v |-> "c2"], meta |-> Obj("m1")],
             [data |-> [kind |-> "FileHandle", v |-> "/tmp/c2.bin"], meta |-> Obj("m1")]}

\* The files on disk a FileHandle can name, and their bytes.
Disk == [path \in {"/tmp/c2.bin"} |-> "c2"]

Listeners == {"l1"}

\* Bound on the writeFile calls that may be suspended at the same time.
MaxReads == 1

(***************************************************************************)
(* A plain JavaScript object used as a map, own properties in insertion    *)
(* order (the order Object.keys reports).                                  *)
(***************************************************************************)
Keys(obj) == [i \in 1..Len(obj) |-> obj[i].k]

Has(obj, key) == \E i \in 1..Len(obj) : obj[i].k = key

\* obj[key]: undefined when the property is missing.
Get(obj, key) ==
    IF Has(obj, key)
    THEN obj[CHOOSE i \in 1..Len(obj) : obj[i].k = key].v
    ELSE Undefined

\* obj[key] = value: an existing property keeps its place.
Put(obj, key, value) ==
    IF Has(obj, key)
    THEN [i \in 1..Len(obj) |-> IF obj[i].k = key THEN [k |-> key, v |-> value] ELSE obj[i]]
    ELSE Append(obj, [k |-> key, v |-> value])

NoFiles == [key \in {} |-> Undefined]

Init ==
    /\ docMetas = <<>>
    /\ files = NoFiles
    /\ reads = {}
    /\ lastOp = [op |-> "new"]
    /\ committed = [f \in {} |-> Undefined]
    /\ stored = [p \in {} |-> Undefined]

(***************************************************************************)
(* contains                                                                *)
(***************************************************************************)
contains(fingerprint) == Has(docMetas, fingerprint)

Contains(fingerprint) ==
    /\ lastOp' = [op |-> "contains", fingerprint |-> fingerprint,
                  threw |-> "none", result |-> contains(fingerprint)]
    /\ UNCHANGED <<docMetas, files, reads, committed, stored, dialogVars, captureVars>>

(***************************************************************************)
(* init, stop                                                              *)
(***************************************************************************)
\* this.directories.init(): creates the directories; the store is not touched.
DirectoriesInit == [dataDir |-> "dataDir", stashDir |-> "stash", filesDir |-> "files", logsDir |-> "logs"]

init ==
    /\ lastOp' = [op |-> "init", threw |-> "none", result |-> DirectoriesInit]
    /\ UNCHANGED <<docMetas, files, reads, committed, stored, dialogVars, captureVars>>

stop ==
    /\ lastOp' = [op |-> "stop", threw |-> "none"]
    /\ UNCHANGED <<docMetas, files, reads, committed, stored, dialogVars, captureVars>>

(***************************************************************************)
(* DatastoreMutation: two futures, `written` and `committed`.  A mutation  *)
(* is the log of the resolve calls made on its futures, in call order.     *)
(***************************************************************************)
NewMutation == <<>>

resolve(mutation, future, value) == Append(mutation, [future |-> future, value |-> value])

\* The values a future of the mutation was resolved with, in order.
Resolutions(mutation, future) ==
    SelectSeq(mutation, LAMBDA e : e.future = future)

\* Position of the first resolve call on a future (0: never resolved).
ResolvedAt(mutation, future) ==
    IF \E i \in 1..Len(mutation) : mutation[i].future = future
    THEN CHOOSE i \in 1..Len(mutation) :
            /\ mutation[i].future = future
            /\ \A j \in 1..(i - 1) : mutation[j].future # future
    ELSE 0

(***************************************************************************)
(* write                                                                   *)
(***************************************************************************)
\* A getDocMeta that answers an empty payload for an unknown fingerprint.
getDocMeta_defaultsToEmpty(fingerprint) ==
    IF Has(docMetas, fingerprint) THEN Get(docMetas, fingerprint) ELSE Str("")

\* return this.docMetas[fingerprint];
getDocMeta(fingerprint) == Get(docMetas, fingerprint)

\* Preconditions.assertTypeOf(value, type, name): the error it raises, if any.
assertTypeOf(value, type) ==
    IF TypeOf(value) = type THEN "none" ELSE "TypeMismatchError"

\* A write that resolves `written` and leaves `committed` pending.
writeResolve_onlyWritten(mutation) == resolve(mutation, "written", TRUE)

\* A write that resolves `committed` ahead of `written`.
writeResolve_committedFirst(mutation) ==
    resolve(resolve(mutation, "committed", TRUE), "written", TRUE)

\* datastoreMutation.written.resolve(true); datastoreMutation.committed.resolve(true);
writeResolve(mutation) ==
    resolve(resolve(mutation, "written", TRUE), "committed", TRUE)

\* A write that adds a record even when the fingerprint already has one.
writeStore_alwaysAppends(fingerprint, data) ==
    Append(docMetas, [k |-> fingerprint, v |-> data])

\* A write that keeps the value a fingerprint already holds.
writeStore_keepsFirst(fingerprint, data) ==
    IF Has(docMetas, fingerprint) THEN docMetas ELSE Put(docMetas, fingerprint, data)

\* this.docMetas[fingerprint] = data;
writeStore(fingerprint, data) == Put(docMetas, fingerprint, data)

\* A write that checks the type of data after storing it.
write_storesBeforeAssert(fingerprint, data, datastoreMutation) ==
    IF assertTypeOf(data, "string") # "none"
    THEN [threw |-> assertTypeOf(data, "string"),
          docMetas |-> Put(docMetas, fingerprint, data),
          mutation |-> datastoreMutation]
    ELSE [threw |-> "none",
          docMetas |-> Put(docMetas, fingerprint, data),
          mutation |-> resolve(resolve(datastoreMutation, "written", TRUE), "committed", TRUE)]

\* The whole method: what it throws, the mapping and the mutation it leaves.
write(fingerprint, data, datastoreMutation) ==
    IF assertTypeOf(data, "string") # "none"
    THEN [threw |-> assertTypeOf(data, "string"),
          docMetas |-> docMetas,
          mutation |-> datastoreMutation]
    ELSE [threw |-> "none",
          docMetas |-> writeStore(fingerprint, data),
          mutation |-> writeResolve(datastoreMutation)]

\* history: the payload is committed once the call resolved `committed`.
Commit(fingerprint, data, mutation) ==
    IF Len(Resolutions(mutation, "committed")) > 0
    THEN [f \in DOMAIN committed \cup {fingerprint} |->
            IF f = fingerprint THEN data ELSE committed[f]]
    ELSE committed

Write(fingerprint, data) ==
    LET r == write(fingerprint, data, NewMutation) IN
    /\ docMetas' = r.docMetas
    /\ lastOp' = [op |-> "write", fingerprint |-> fingerprint, data |-> data,
                  threw |-> r.threw, mutation |-> r.mutation,
                  prior |-> getDocMeta(fingerprint)]
    /\ committed' = Commit(fingerprint, data, r.mutation)
    /\ UNCHANGED <<files, reads, stored, dialogVars, captureVars>>

(***************************************************************************)
(* getDocMeta, getDocMetaFiles                                             *)
(***************************************************************************)
\* A getDocMeta that creates an empty record for an unknown fingerprint.
GetDocMeta_createsMissing(fingerprint) ==
    /\ lastOp' = [op |-> "getDocMeta", fingerprint |-> fingerprint,
                  threw |-> "none", result |-> getDocMeta(fingerprint)]
    /\ docMetas' = IF contains(fingerprint)
                   THEN docMetas
                   ELSE Put(docMetas, fingerprint, Str("{}"))
    /\ UNCHANGED <<files, reads, committed, stored, dialogVars, captureVars>>

GetDocMeta(fingerprint) ==
    /\ lastOp' = [op |-> "getDocMeta", fingerprint |-> fingerprint,
                  threw |-> "none", result |-> getDocMeta(fingerprint)]
    /\ UNCHANGED <<docMetas, files, reads, committed, stored, dialogVars, captureVars>>

\* A getDocMetaFiles that loses the first fingerprint.
getDocMetaFiles_skipsFirst ==
    [i \in 1..(Len(docMetas) - 1) |-> [fingerprint |-> Keys(docMetas)[i + 1]]]

getDocMetaFiles ==
    [i \in 1..Len(docMetas) |-> [fingerprint |-> Keys(docMetas)[i]]]

GetDocMetaFiles ==
    /\ lastOp' = [op |-> "getDocMetaFiles", threw |-> "none", result |-> getDocMetaFiles]
    /\ UNCHANGED <<docMetas, files, reads, committed, stored, dialogVars, captureVars>>

(***************************************************************************)
(* delete                                                                  *)
(***************************************************************************)
\* Optional.of(docFile).map(current => current.name).getOrUndefined()
OptionalName(docFile) == IF docFile.absent THEN Undefined ELSE docFile.name

\* A delete that reports success without asking contains.
delete_ignoresContains(docMetaFileRef) ==
    [docMetaFile |->
        [path |-> "/" \o docMetaFileRef.fingerprint \o ".json", deleted |-> TRUE],
     dataFile |->
        [path |-> "/" \o TemplateString(OptionalName(docMetaFileRef.docFile)),
         deleted |-> TRUE]]

\* The DeleteResult.  The promise of `await this.contains(...)` is settled
\* with the answer of the call's own job, and the continuation reads nothing
\* else, so the result is a function of the state at the call.
delete(docMetaFileRef) ==
    LET result ==
            [docMetaFile |->
                [path |-> "/" \o docMetaFileRef.fingerprint \o ".json",
                 deleted |-> FALSE],
             dataFile |->
                [path |-> "/" \o TemplateString(OptionalName(docMetaFileRef.docFile)),
                 deleted |-> FALSE]]
    IN  IF contains(docMetaFileRef.fingerprint)
        THEN [result EXCEPT !.docMetaFile.deleted = TRUE,
                            !.dataFile.deleted = TRUE]
        ELSE result

\* The method assigns to neither this.docMetas nor this.files.
Delete(docMetaFileRef) ==
    /\ lastOp' = [op |-> "delete", ref |-> docMetaFileRef,
                  threw |-> "none", result |-> delete(docMetaFileRef)]
    /\ UNCHANGED <<docMetas, files, reads, committed, stored, dialogVars, captureVars>>

DocMetaFileRefs ==
    {[fingerprint |-> f, docFile |-> d] : f \in Fingerprints, d \in DocFiles}

(***************************************************************************)
(* snapshot, addDocMetaSnapshotEventListener                               *)
(***************************************************************************)
\* Datastores.createCommittedSnapshot(this, listener): one batch holding the
\* current mapping, read through getDocMetaFiles and getDocMeta.
createCommittedSnapshot ==
    [i \in 1..Len(getDocMetaFiles) |->
        [fingerprint |-> getDocMetaFiles[i].fingerprint,
         docMeta |-> getDocMeta(getDocMetaFiles[i].fingerprint),
         consistency |-> "committed"]]

snapshot == createCommittedSnapshot

Snapshot(listener) ==
    /\ lastOp' = [op |-> "snapshot", listener |-> listener, threw |-> "none",
                  delivered |-> snapshot,
                  result |-> [records |-> Len(snapshot)]]
    /\ UNCHANGED <<docMetas, files, reads, committed, stored, dialogVars, captureVars>>

\* A registration that answers with a first snapshot batch.
addDocMetaSnapshotEventListener_deliversSnapshot(docMetaSnapshotEventListener) ==
    snapshot

\* The batch the registered listener is called with: the body is `// noop now`,
\* the listener is neither called nor kept.
addDocMetaSnapshotEventListener(docMetaSnapshotEventListener) == <<>>

AddDocMetaSnapshotEventListener(listener) ==
    /\ lastOp' = [op |-> "addDocMetaSnapshotEventListener", listener |-> listener,
                  threw |-> "none",
                  delivered |-> addDocMetaSnapshotEventListener(listener)]
    /\ UNCHANGED <<docMetas, files, reads, committed, stored, dialogVars, captureVars>>

(***************************************************************************)
(* File store                                                              *)
(***************************************************************************)
\* A key that leaves the backend out.
toFileRefKey_nameOnly(backend, fileRef) == TemplateString(fileRef.name)

toFileRefKey(backend, fileRef) ==
    backend \o ":" \o TemplateString(fileRef.name)

Buffer(bytes) == [t |-> "Buffer", bytes |-> bytes]

\* Buffer.from(string): the bytes of the string.
BufferFrom(string) == Buffer(string)

\* Files.readFileAsync(path): the bytes of the file on disk.
readFileAsync(path) == Buffer(Disk[path])

\* meta: FileMeta = {}
metaOrDefault(meta) == IF meta = Undefined THEN Obj("{}") ELSE meta

\* this.files[key] (undefined when the key is missing)
fileData(key) == IF key \in DOMAIN files THEN files[key] ELSE Undefined

\* A store that replaces the whole mapping by the one entry.
writeFileStore_replacesAll(key, buff, meta) ==
    [k \in {key} |-> [t |-> "FileData", buffer |-> buff, meta |-> meta]]

\* A store that keeps the entry a key already holds.
writeFileStore_keepsExisting(key, buff, meta) ==
    IF key \in DOMAIN files
    THEN files
    ELSE [k \in DOMAIN files \cup {key} |->
            IF k = key THEN [t |-> "FileData", buffer |-> buff, meta |-> meta] ELSE files[k]]

\* this.files[key] = {buffer: buff, meta};
writeFileStore(key, buff, meta) ==
    [k \in DOMAIN files \cup {key} |->
        IF k = key THEN [t |-> "FileData", buffer |-> buff, meta |-> meta] ELSE files[k]]

\* The DatastoreFile returned: {backend, ref, url: 'FIXME:none', meta}
DatastoreFile(backend, ref, meta) ==
    [backend |-> backend, ref |-> ref, url |-> "FIXME:none", meta |-> meta]

\* history: the pair now holds this content and meta.
RecordFile(backend, ref, buff, meta) ==
    [p \in DOMAIN stored \cup {<<backend, ref>>} |->
        IF p = <<backend, ref>> THEN [buffer |-> buff, meta |-> meta] ELSE stored[p]]

\* writeFile with a string or a Buffer: no suspension point.
WriteFile(backend, ref, data, meta) ==
    /\ data.kind \in {"string", "Buffer"}
    /\ LET key == toFileRefKey(backend, ref)
           buff == IF data.kind = "string" THEN BufferFrom(data.v) ELSE Buffer(data.v)
       IN  /\ files' = writeFileStore(key, buff, metaOrDefault(meta))
           /\ lastOp' = [op |-> "writeFile", backend |-> backend, ref |-> ref,
                         data |-> data, meta |-> meta, threw |-> "none",
                         prior |-> fileData(key),
                         result |-> DatastoreFile(backend, ref, metaOrDefault(meta))]
           /\ stored' = RecordFile(backend, ref, buff, metaOrDefault(meta))
    /\ UNCHANGED <<docMetas, reads, committed, dialogVars, captureVars>>

\* writeFile with a FileHandle, up to `await Files.readFileAsync(data.path)`:
\* the key is computed, the call is suspended.
WriteFileRead(backend, ref, data, meta) ==
    /\ data.kind = "FileHandle"
    /\ Cardinality(reads) < MaxReads
    /\ LET call == [key |-> toFileRefKey(backend, ref), backend |-> backend,
                    ref |-> ref, data |-> data, meta |-> metaOrDefault(meta)]
       IN  /\ call \notin reads
           /\ reads' = reads \cup {call}
    /\ UNCHANGED <<docMetas, files, lastOp, committed, stored, dialogVars, captureVars>>

\* ... and from the read's completion to the return.
WriteFileResume(call) ==
    /\ call \in reads
    /\ reads' = reads \ {call}
    /\ files' = writeFileStore(call.key, readFileAsync(call.data.v), call.meta)
    /\ lastOp' = [op |-> "writeFile", backend |-> call.backend, ref |-> call.ref,
                  data |-> call.data, meta |-> call.meta, threw |-> "none",
                  prior |-> fileData(call.key),
                  result |-> DatastoreFile(call.backend, call.ref, call.meta)]
    /\ stored' = RecordFile(call.backend, call.ref, readFileAsync(call.data.v), call.meta)
    /\ UNCHANGED <<docMetas, committed, dialogVars, captureVars>>

\* ... or the read fails and the call rejects with the read's error.
WriteFileReadFailed(call) ==
    /\ call \in reads
    /\ reads' = reads \ {call}
    /\ lastOp' = [op |-> "writeFile", backend |-> call.backend, ref |-> call.ref,
                  data |-> call.data, meta |-> call.meta, threw |-> "ReadError"]
    /\ UNCHANGED <<docMetas, files, committed, stored, dialogVars, captureVars>>

\* Optional<DatastoreFile>
OptionalEmpty == [present |-> FALSE]
OptionalOf(value) == [present |-> TRUE, value |-> value]

\* What getFile throws and returns.  `fileData.meta` on a missing entry is a
\* property read on undefined: a TypeError.
getFile(backend, ref) ==
    LET key == toFileRefKey(backend, ref) IN
    IF key = ""
    THEN [threw |-> "none", result |-> OptionalEmpty]
    ELSE IF fileData(key) = Undefined
         THEN [threw |-> "TypeError"]
         ELSE [threw |-> "none",
               result |-> OptionalOf(DatastoreFile(backend, ref, fileData(key).meta))]

GetFile(backend, ref) ==
    /\ lastOp' = [op |-> "getFile", backend |-> backend, ref |-> ref,
                  out |-> getFile(backend, ref)]
    /\ UNCHANGED <<docMetas, files, reads, committed, stored, dialogVars, captureVars>>

\* Preconditions.isPresent(value)
isPresent(value) == value # Undefined

containsFile(backend, ref) == isPresent(fileData(toFileRefKey(backend, ref)))

ContainsFile(backend, ref) ==
    /\ lastOp' = [op |-> "containsFile", backend |-> backend, ref |-> ref,
                  threw |-> "none", result |-> containsFile(backend, ref)]
    /\ UNCHANGED <<docMetas, files, reads, committed, stored, dialogVars, captureVars>>

\* A deleteFile that removes nothing.
deleteFile_removesNothing(backend, ref) == files

\* delete this.files[key];
deleteFile(backend, ref) ==
    [k \in DOMAIN files \ {toFileRefKey(backend, ref)} |-> files[k]]

DeleteFile(backend, ref) ==
    /\ files' = deleteFile(backend, ref)
    /\ lastOp' = [op |-> "deleteFile", backend |-> backend, ref |-> ref,
                  threw |-> "none"]
    /\ stored' = [p \in DOMAIN stored \ {<<backend, ref>>} |-> stored[p]]
    /\ UNCHANGED <<docMetas, reads, committed, dialogVars, captureVars>>

Next ==
    \/ init
    \/ stop
    \/ \E f \in Fingerprints : Contains(f)
    \/ \E f \in Fingerprints, d \in WriteData : Write(f, d)
    \/ \E f \in Fingerprints : GetDocMeta(f)
    \/ GetDocMetaFiles
    \/ \E r \in DocMetaFileRefs : Delete(r)
    \/ \E l \in Listeners : Snapshot(l)
    \/ \E l \in Listeners : AddDocMetaSnapshotEventListener(l)
    \/ \E t \in FileTargets, a \in FileArgs : WriteFile(t.backend, t.ref, a.data, a.meta)
    \/ \E t \in FileTargets, a \in FileArgs : WriteFileRead(t.backend, t.ref, a.data, a.meta)
    \/ \E call \in reads : WriteFileResume(call)
    \/ \E call \in reads : WriteFileReadFailed(call)
    \/ \E t \in FileTargets : GetFile(t.backend, t.ref)
    \/ \E t \in FileTargets : ContainsFile(t.backend, t.ref)
    \/ \E t \in FileTargets : DeleteFile(t.backend, t.ref)

(***************************************************************************)
(* DialogWindowClient.create.  The renderer asks the main process for a    *)
(* dialog window: it sends a 'create' request on 'dialog-window' and takes *)
(* the answer from the request's own response channel.  An async function  *)
(* runs without interruption up to its next `await`, so create is one step *)
(* per stretch between awaits.                                             *)
(***************************************************************************)
\* The calls of create, named by the nonce of the request each one builds.
CreateCalls == {"n1", "n2"}

\* Bound on the messages that senders other than the responder post on the
\* response channels.
MaxOthers == 2

None == [t |-> "none"]

\* new IPCMessage(type, value): the message carries a nonce of its own.
IPCMessage(type, value, nonce) == [type |-> type, value |-> value, nonce |-> nonce]

\* createRequest.computeResponseChannel(): one channel per request.
computeResponseChannel(request) == "/ipc/response/" \o request.nonce

\* new IPCMessage<DialogWindowOptions>('create', options)
createRequest(call) == IPCMessage("create", "options", call)

\* The DialogWindowReference the main process answers a request with.
DialogWindowReference(request) == [id |-> "window-" \o request.nonce]

\* A message on its way to this renderer.
Sent(channel, message, from) == [channel |-> channel, message |-> message, from |-> from]

\* What the responder answers to a request, and what another sender posts.
Response(request) ==
    Sent(computeResponseChannel(request),
         IPCMessage("created", DialogWindowReference(request), request.nonce), "responder")

OtherMessage(call) ==
    Sent(computeResponseChannel(createRequest(call)), IPCMessage("other", [id |-> "none"], call), "other")

DialogInit ==
    /\ createCalls = [c \in CreateCalls |-> [pc |-> "new", createdPromise |-> None, returned |-> None]]
    /\ onceListeners = {}
    /\ ipcMain = {}
    /\ ipcRenderer = {}
    /\ others = 0
    /\ ipcLog = <<>>

\* IPCRendererPromises.once(channel): a promise that a one-shot listener on the
\* channel resolves with the event and its message.
once(channel) == onceListeners \cup {channel}

\* Lines 40-44: build the request, register for its response, and wait for
\* the promise of once.
Create(call) ==
    /\ createCalls[call].pc = "new"
    /\ onceListeners' = once(computeResponseChannel(createRequest(call)))
    /\ createCalls' = [createCalls EXCEPT ![call].pc = "awaitOnce"]
    /\ ipcLog' = Append(ipcLog, [ev |-> "once", call |-> call])
    /\ UNCHANGED <<ipcMain, ipcRenderer, others, vars, captureVars>>

\* Lines 44-48: the promise of once has resolved, with the event and message
\* its listener received; only now the request is sent, and create waits for
\* createdPromise, which is that same value.
CreateSend(call) ==
    /\ createCalls[call].pc = "awaitOnce"
    /\ createCalls[call].createdPromise # None
    /\ ipcMain' = ipcMain \cup {createRequest(call)}
    /\ createCalls' = [createCalls EXCEPT ![call].pc = "awaitCreated"]
    /\ ipcLog' = Append(ipcLog, [ev |-> "send", call |-> call])
    /\ UNCHANGED <<onceListeners, ipcRenderer, others, vars, captureVars>>

\* Lines 48-52: IPCMessage.create(message).value becomes the client's
\* dialogWindowReference.
CreateReturn(call) ==
    /\ createCalls[call].pc = "awaitCreated"
    /\ createCalls' = [createCalls EXCEPT ![call].pc = "done",
                                          ![call].returned = createCalls[call].createdPromise.message.value]
    /\ ipcLog' = Append(ipcLog, [ev |-> "return", call |-> call])
    /\ UNCHANGED <<onceListeners, ipcMain, ipcRenderer, others, vars, captureVars>>

\* The main process answers a request it received on 'dialog-window'.
Respond(request) ==
    /\ request \in ipcMain
    /\ ipcMain' = ipcMain \ {request}
    /\ ipcRenderer' = ipcRenderer \cup {Response(request)}
    /\ ipcLog' = Append(ipcLog, [ev |-> "respond", call |-> request.nonce])
    /\ UNCHANGED <<createCalls, onceListeners, others, vars, captureVars>>

\* The renderer emits a message on its channel: a one-shot listener is
\* removed and resolves its promise; with no listener the message is lost.
Emit(sent) ==
    /\ sent \in ipcRenderer
    /\ ipcRenderer' = ipcRenderer \ {sent}
    /\ onceListeners' = onceListeners \ {sent.channel}
    /\ createCalls' =
           [c \in CreateCalls |->
               IF computeResponseChannel(createRequest(c)) = sent.channel /\ sent.channel \in onceListeners
               THEN [createCalls[c] EXCEPT !.createdPromise = [message |-> sent.message]]
               ELSE createCalls[c]]
    /\ ipcLog' = Append(ipcLog, [ev |-> "emit", call |-> sent.message.nonce, from |-> sent.from,
                                 heard |-> sent.channel \in onceListeners])
    /\ UNCHANGED <<ipcMain, others, vars, captureVars>>

\* Some other sender posts a message on a call's response channel.
Other(call) ==
    /\ others < MaxOthers
    /\ OtherMessage(call) \notin ipcRenderer
    /\ others' = others + 1
    /\ ipcRenderer' = ipcRenderer \cup {OtherMessage(call)}
    /\ ipcLog' = Append(ipcLog, [ev |-> "other", call |-> call])
    /\ UNCHANGED <<createCalls, onceListeners, ipcMain, vars, captureVars>>

\* What moves a call of create forward without anybody else's help: its own
\* next stretch, the responder answering its request, and the renderer
\* emitting the responder's answer.
Progress(call) ==
    \/ CreateSend(call)
    \/ CreateReturn(call)
    \/ Respond(createRequest(call))
    \/ Emit(Response(createRequest(call)))

DialogNext ==
    \/ \E call \in CreateCalls : Create(call)
    \/ \E call \in CreateCalls : CreateSend(call)
    \/ \E call \in CreateCalls : CreateReturn(call)
    \/ \E request \in ipcMain : Respond(request)
    \/ \E sent \in ipcRenderer : Emit(sent)
    \/ \E call \in CreateCalls : Other(call)

(***************************************************************************)
(* CaptureController.startCapture.  The main process loads the capture     *)
(* page into the window that asked for a capture, waits for the page to    *)
(* finish loading, and then loads the captured PHZ into the same window.   *)
(* Two requests may come from the same window.                             *)
(***************************************************************************)
\* The calls of startCapture, and the url each was given.
Captures == {"k1", "k2"}

CaptureUrl == [k \in Captures |-> IF k = "k1" THEN "https://a.example/?q=1" ELSE "https://b.example/"]

encodeURIComponent ==
    [u \in {"https://a.example/?q=1", "https://b.example/"} |->
        IF u = "https://a.example/?q=1"
        THEN "https%3A%2F%2Fa.example%2F%3Fq%3D1"
        ELSE "https%3A%2F%2Fb.example%2F"]

\* Line 94
pageURL(url) == "http://127.0.0.1:8500/apps/capture/capture.html?url=" \o encodeURIComponent[url]

\* Lines 66-68
captureResult == [path |-> "/home/burton/.polar/stash/UK_unveils_new_Tempest_fighter_jet_model___BBC_News.phz"]

\* this.phzLoader.registerForLoad(path): resolves with the URL the file is
\* served under.
registerForLoad(path) == "http://127.0.0.1:8500/files/" \o path

NotLoading == ""

CaptureInit ==
    /\ captures = [k \in Captures |-> "new"]
    /\ didFinishLoad = {}
    /\ loading = NotLoading
    /\ captureLog = <<>>

\* Lines 86-105, the calls loadApp makes on the window, in order.
loadApp_loadsFirst(capture, url) ==
    <<[ev |-> "loadURL", capture |-> capture, url |-> pageURL(url)],
      [ev |-> "once", capture |-> capture, url |-> ""]>>
loadApp(capture, url) ==
    <<[ev |-> "once", capture |-> capture, url |-> ""],
      [ev |-> "loadURL", capture |-> capture, url |-> pageURL(url)]>>

\* Lines 58-60 and 84-107: startCapture runs loadApp up to its return and
\* waits for the promise the listener resolves.
StartCapture(capture) ==
    /\ captures[capture] = "new"
    /\ didFinishLoad' = didFinishLoad \cup {capture}
    /\ loading' = pageURL(CaptureUrl[capture])
    /\ captures' = [captures EXCEPT ![capture] = "awaitLoadApp"]
    /\ captureLog' = captureLog \o loadApp(capture, CaptureUrl[capture])
    /\ UNCHANGED <<vars, dialogVars>>

\* The window finished a load: 'did-finish-load' runs every one-shot listener
\* once (lines 96-101, resolve(window)) and removes it.
DidFinishLoad ==
    /\ loading # NotLoading
    /\ loading' = NotLoading
    /\ didFinishLoad' = {}
    /\ captures' = [k \in Captures |-> IF k \in didFinishLoad THEN "loaded" ELSE captures[k]]
    /\ captureLog' = Append(captureLog, [ev |-> "did-finish-load", capture |-> "", url |-> loading])
    /\ UNCHANGED <<vars, dialogVars>>

\* The load failed: 'did-fail-load' is emitted instead, which nothing listens
\* to; the one-shot listeners stay registered.
DidFailLoad ==
    /\ loading # NotLoading
    /\ loading' = NotLoading
    /\ captureLog' = Append(captureLog, [ev |-> "did-fail-load", capture |-> "", url |-> loading])
    /\ UNCHANGED <<captures, didFinishLoad, vars, dialogVars>>

\* Lines 60-72 and 133-135: loadApp's promise has resolved; startCapture calls
\* loadPHZ, which waits for registerForLoad.
LoadPHZ(capture) ==
    /\ captures[capture] = "loaded"
    /\ captures' = [captures EXCEPT ![capture] = "awaitRegisterForLoad"]
    /\ captureLog' = Append(captureLog, [ev |-> "loadPHZ", capture |-> capture, url |-> ""])
    /\ UNCHANGED <<didFinishLoad, loading, vars, dialogVars>>

\* Lines 135-139: webContents.loadURL(url)
LoadPHZLoadURL(capture) ==
    /\ captures[capture] = "awaitRegisterForLoad"
    /\ loading' = registerForLoad(captureResult.path)
    /\ captures' = [captures EXCEPT ![capture] = "done"]
    /\ captureLog' = Append(captureLog, [ev |-> "loadURL", capture |-> capture,
                                         url |-> registerForLoad(captureResult.path)])
    /\ UNCHANGED <<didFinishLoad, vars, dialogVars>>

\* Line 135 when registerForLoad rejects: loadPHZ and startCapture reject, and
\* start's catch (lines 46-47) logs the error.
RegisterForLoadFailed(capture) ==
    /\ captures[capture] = "awaitRegisterForLoad"
    /\ captures' = [captures EXCEPT ![capture] = "failed"]
    /\ captureLog' = Append(captureLog, [ev |-> "error", capture |-> capture, url |-> ""])
    /\ UNCHANGED <<didFinishLoad, loading, vars, dialogVars>>

CaptureNext ==
    \/ \E capture \in Captures : StartCapture(capture)
    \/ DidFinishLoad
    \/ DidFailLoad
    \/ \E capture \in Captures : LoadPHZ(capture)
    \/ \E capture \in Captures : LoadPHZLoadURL(capture)
    \/ \E capture \in Captures : RegisterForLoadFailed(capture)

\* The three programs share nothing: each specification runs one of them and
\* leaves the others as constructed.
AllInit ==
    /\ Init
    /\ DialogInit
    /\ CaptureInit

Spec == AllInit /\ [][Next]_allVars

SpecDialog == AllInit /\ [][DialogNext]_allVars

SpecCapture == AllInit /\ [][CaptureNext]_allVars

(***************************************************************************)
(* Properties                                                              *)
(***************************************************************************)
WroteOk == lastOp.op = "write" /\ lastOp.threw = "none"

\* C1: round trip.  In the state a successful write(f, d) leaves, getDocMeta(f)
\* answers exactly d, whatever f held before.
C1_RoundTrip ==
    WroteOk => getDocMeta(lastOp.fingerprint) = lastOp.data

\* A successful write over a fingerprint that held another payload.
C1_Witness ==
    /\ WroteOk
    /\ lastOp.prior \in Payloads
    /\ lastOp.prior # lastOp.data

\* C2: existence consistency.  contains(f) is true right after a successful
\* write(f), false for every fingerprint never written, and false right after
\* a delete of f that reported deleted.
C2_ExistenceConsistency ==
    /\ WroteOk => contains(lastOp.fingerprint)
    /\ \A f \in Fingerprints : f \notin DOMAIN committed => ~contains(f)
    /\ (lastOp.op = "delete" /\ lastOp.result.docMetaFile.deleted)
            => ~contains(lastOp.ref.fingerprint)

\* C3: delete semantics.  delete never fails; on a fingerprint never written
\* both targets report deleted = false; on a written fingerprint the
\* docMetaFile target reports deleted = true.
C3_DeleteSemantics ==
    lastOp.op = "delete" =>
        /\ lastOp.threw = "none"
        /\ lastOp.ref.fingerprint \notin DOMAIN committed =>
                /\ ~lastOp.result.docMetaFile.deleted
                /\ ~lastOp.result.dataFile.deleted
        /\ lastOp.ref.fingerprint \in DOMAIN committed =>
                lastOp.result.docMetaFile.deleted

\* A delete of a written fingerprint, while the other was never written.
C3_Witness ==
    /\ lastOp.op = "delete"
    /\ lastOp.ref.fingerprint \in DOMAIN committed
    /\ lastOp.result.docMetaFile.deleted
    /\ \E f \in Fingerprints : f \notin DOMAIN committed

\* C4: mutation ordering.  After a successful write each future of its
\* mutation was resolved exactly once, with true, and `written` was resolved
\* before `committed`.
C4_MutationOrdering ==
    WroteOk =>
        /\ Resolutions(lastOp.mutation, "written") = <<[future |-> "written", value |-> TRUE]>>
        /\ Resolutions(lastOp.mutation, "committed") = <<[future |-> "committed", value |-> TRUE]>>
        /\ ResolvedAt(lastOp.mutation, "written") <= ResolvedAt(lastOp.mutation, "committed")

\* A successful write whose mutation has both futures resolved.
C4_Witness ==
    /\ WroteOk
    /\ ResolvedAt(lastOp.mutation, "written") > 0
    /\ ResolvedAt(lastOp.mutation, "committed") > 0

\* C5: getFile on a key that holds no file returns an empty Optional and
\* raises no error.
C5_UnknownFileIsEmpty ==
    (lastOp.op = "getFile" /\ ~containsFile(lastOp.backend, lastOp.ref)) =>
        /\ lastOp.out.threw = "none"
        /\ lastOp.out.result = OptionalEmpty

\* C6: getDocMeta on a fingerprint never written answers undefined and does
\* not throw.
C6_UnknownDocMetaIsAbsent ==
    (lastOp.op = "getDocMeta" /\ lastOp.fingerprint \notin DOMAIN committed) =>
        /\ lastOp.threw = "none"
        /\ lastOp.result = Undefined

\* getDocMeta on a fingerprint never written, in a store that holds another.
C6_Witness ==
    /\ lastOp.op = "getDocMeta"
    /\ lastOp.fingerprint \notin DOMAIN committed
    /\ docMetas # <<>>

\* C7: file key isolation.  Two backends give the same name two keys, and
\* every (backend, ref) written and not deleted since is still contained and
\* read back with the meta of its own last writeFile, whatever was written or
\* deleted for the same name in the other backend.
C7_FileKeyIsolation ==
    /\ \A r \in FileRefs : \A a, b \in Backends :
            a # b => toFileRefKey(a, r) # toFileRefKey(b, r)
    /\ \A p \in DOMAIN stored :
            /\ containsFile(p[1], p[2])
            /\ getFile(p[1], p[2]) =
                    [threw |-> "none",
                     result |-> OptionalOf(DatastoreFile(p[1], p[2], stored[p].meta))]

\* The same name held by both backends, each with the meta of its own
\* writeFile, right after the second of the two was written.
C7_Witness ==
    /\ lastOp.op = "writeFile"
    /\ lastOp.threw = "none"
    /\ \E p \in DOMAIN stored :
            /\ p[2] = lastOp.ref
            /\ p[1] # lastOp.backend
            /\ <<lastOp.backend, lastOp.ref>> \in DOMAIN stored
            /\ stored[p].meta # stored[<<lastOp.backend, lastOp.ref>>].meta

\* C8: snapshot completeness.  The batch a snapshot delivers holds, for every
\* fingerprint with a committed write, that fingerprint with the payload of
\* its last committed write.
C8_SnapshotComplete ==
    lastOp.op = "snapshot" =>
        \A f \in DOMAIN committed :
            \E i \in 1..Len(lastOp.delivered) :
                /\ lastOp.delivered[i].fingerprint = f
                /\ lastOp.delivered[i].docMeta = committed[f]

\* A snapshot of two committed records.
C8_Witness ==
    /\ lastOp.op = "snapshot"
    /\ Cardinality(DOMAIN committed) = 2
    /\ Len(lastOp.delivered) = 2

\* C9: a write whose data is not a string throws the type mismatch, leaves
\* the document mapping (so contains and getDocMeta of the fingerprint) as it
\* was, and resolves neither future of the mutation.
C9_TypeMismatchBeforeMutation ==
    [][\A f \in Fingerprints : \A d \in WriteData :
            (TypeOf(d) # "string" /\ Write(f, d)) =>
                /\ lastOp'.threw = "TypeMismatchError"
                /\ docMetas' = docMetas
                /\ contains(f)' = contains(f)
                /\ getDocMeta(f)' = getDocMeta(f)
                /\ lastOp'.mutation = NewMutation]_vars

\* A rejected write on a fingerprint that holds a payload.
C9_Witness ==
    /\ lastOp.op = "write"
    /\ TypeOf(lastOp.data) # "string"
    /\ lastOp.threw = "TypeMismatchError"
    /\ contains(lastOp.fingerprint)

\* C10: delete reports deleted = false for a dataFile target that did not
\* exist: the ref carries no docFile, or no backend holds its docFile.
C10_AbsentDataFileNotDeleted ==
    (/\ lastOp.op = "delete"
     /\ \/ lastOp.ref.docFile.absent
        \/ \A b \in Backends : ~containsFile(b, [name |-> lastOp.ref.docFile.name]))
        => ~lastOp.result.dataFile.deleted

\* C11: deleteFile is an idempotent removal.  It never throws, the key it
\* names is not contained afterwards, and on a key that holds no file (a
\* second deleteFile included) it leaves the file mapping as it was.
C11_DeleteFileIdempotent ==
    [][\A t \in FileTargets :
            DeleteFile(t.backend, t.ref) =>
                /\ lastOp'.threw = "none"
                /\ ~containsFile(t.backend, t.ref)'
                /\ ~containsFile(t.backend, t.ref) => files' = files]_vars

\* A deleteFile that removed its key while another file stays stored.
C11_Witness ==
    /\ lastOp.op = "deleteFile"
    /\ ~containsFile(lastOp.backend, lastOp.ref)
    /\ DOMAIN files # {}

FileOps == {"writeFile", "getFile", "containsFile", "deleteFile"}

\* What the last call threw ("none": it returned).
Threw == IF lastOp.op = "getFile" THEN lastOp.out.threw ELSE lastOp.threw

\* C12: a file method called with a ref that has no name fails with
\* InvalidKeyError, and the file mapping holds no entry under the key of
\* such a ref.
C12_MalformedRefFailsFast ==
    /\ (lastOp.op \in FileOps /\ lastOp.ref.name = Undefined)
            => Threw = "InvalidKeyError"
    /\ \A b \in Backends : ~containsFile(b, [name |-> Undefined])

\* The fingerprints getDocMetaFiles lists.
Listed == {getDocMetaFiles[i].fingerprint : i \in 1..Len(getDocMetaFiles)}

\* C13: getDocMetaFiles lists exactly the fingerprints contains answers true
\* for, each of them once.
C13_DocMetaFilesAreTheContained ==
    /\ Listed = {f \in Fingerprints : contains(f)}
    /\ Len(getDocMetaFiles) = Cardinality(Listed)
    /\ lastOp.op = "getDocMetaFiles" => lastOp.result = getDocMetaFiles

\* getDocMetaFiles answering two fingerprints.
C13_Witness ==
    /\ lastOp.op = "getDocMetaFiles"
    /\ Len(lastOp.result) = 2

\* C14: in every state, a fingerprint the document mapping holds was stored
\* by a write whose mutation is resolved (the state a successful write leaves
\* has both futures resolved, and the payload held is the committed one), so
\* a snapshot delivers committed records only.
C14_OnlyCommittedVisible ==
    /\ \A f \in Fingerprints :
            contains(f) => (f \in DOMAIN committed /\ getDocMeta(f) = committed[f])
    /\ WroteOk =>
            /\ ResolvedAt(lastOp.mutation, "written") > 0
            /\ ResolvedAt(lastOp.mutation, "committed") > 0
    /\ lastOp.op = "snapshot" =>
            \A i \in 1..Len(lastOp.delivered) :
                /\ lastOp.delivered[i].fingerprint \in DOMAIN committed
                /\ lastOp.delivered[i].docMeta = committed[lastOp.delivered[i].fingerprint]

\* A snapshot that delivered one record.
C14_Witness ==
    /\ lastOp.op = "snapshot"
    /\ Len(lastOp.delivered) = 1

\* The bytes writeFile is to store for a data argument.
BytesOf(data) == IF data.kind = "FileHandle" THEN Buffer(Disk[data.v]) ELSE Buffer(data.v)

\* C15: writeFile overwrites.  In the state a completed writeFile leaves, the
\* key holds the content and the meta of that call, whatever it held before,
\* and getFile answers a descriptor with that meta.
C15_WriteFileOverwrites ==
    (lastOp.op = "writeFile" /\ lastOp.threw = "none") =>
        /\ fileData(toFileRefKey(lastOp.backend, lastOp.ref)) =
                [t |-> "FileData", buffer |-> BytesOf(lastOp.data),
                 meta |-> metaOrDefault(lastOp.meta)]
        /\ getFile(lastOp.backend, lastOp.ref) =
                [threw |-> "none",
                 result |-> OptionalOf(DatastoreFile(lastOp.backend, lastOp.ref,
                                                     metaOrDefault(lastOp.meta)))]

\* A writeFile over a key that held another content and another meta.
C15_Witness ==
    /\ lastOp.op = "writeFile"
    /\ lastOp.threw = "none"
    /\ lastOp.prior # Undefined
    /\ lastOp.prior.buffer # BytesOf(lastOp.data)
    /\ lastOp.prior.meta # metaOrDefault(lastOp.meta)

\* A step that completes a call: every method leaves its call in lastOp.
Completes(ops) == lastOp' # lastOp /\ lastOp'.op \in ops

\* C16: registering a snapshot listener is a no-op.  It does not throw,
\* changes neither mapping and calls the listener with nothing; and a batch
\* is delivered by no call but snapshot, to the listener snapshot was given.
C16_RegistrationIsNoOp ==
    [][/\ Completes({"addDocMetaSnapshotEventListener"}) =>
                /\ lastOp'.threw = "none"
                /\ docMetas' = docMetas
                /\ files' = files
                /\ lastOp'.delivered = <<>>
       /\ ("delivered" \in DOMAIN lastOp' /\ lastOp'.delivered # <<>>) =>
                /\ lastOp'.op = "snapshot"
                /\ lastOp'.listener \in Listeners
                /\ lastOp'.delivered = snapshot]_vars

\* A registration on a store that holds documents and files.
C16_Witness ==
    /\ lastOp.op = "addDocMetaSnapshotEventListener"
    /\ docMetas # <<>>
    /\ DOMAIN files # {}

ReadOnlyOps == {"contains", "getDocMeta", "getDocMetaFiles", "getFile",
                "containsFile", "snapshot", "stop"}

\* What the read-only methods answer in a state.
Answers ==
    <<[f \in Fingerprints |-> contains(f)],
      [f \in Fingerprints |-> getDocMeta(f)],
      getDocMetaFiles,
      snapshot,
      [t \in FileTargets |-> getFile(t.backend, t.ref)],
      [t \in FileTargets |-> containsFile(t.backend, t.ref)]>>

\* C17: contains, getDocMeta, getDocMetaFiles, getFile, containsFile,
\* snapshot and stop change neither mapping, so each of them answers after
\* the step what it answered before.
C17_ReadOnlyNoSideEffects ==
    [][Completes(ReadOnlyOps) =>
            /\ docMetas' = docMetas
            /\ files' = files
            /\ Answers' = Answers]_vars

\* A read on a store that holds documents and files.
C17_Witness ==
    /\ lastOp.op \in ReadOnlyOps
    /\ Len(docMetas) = 2
    /\ Cardinality(DOMAIN files) = 2

\* Every fingerprint but this one holds what it held.
OtherDocsUnchanged(fingerprint) ==
    \A g \in Fingerprints \ {fingerprint} :
        /\ contains(g)' = contains(g)
        /\ getDocMeta(g)' = getDocMeta(g)

\* Every file key but this one holds what it held.
OtherFilesUnchanged(key) ==
    \A k \in (DOMAIN files \cup DOMAIN files') \ {key} :
        fileData(k)' = fileData(k)

\* C18: the two mappings are independent.  write and delete leave the file
\* mapping alone, writeFile and deleteFile leave the document mapping alone,
\* each of them changes at most the key it names, and a step that completes
\* no call (a writeFile suspending on its read) changes neither mapping.
C18_MappingsIndependent ==
    [][/\ Completes({"write"}) =>
            (files' = files /\ OtherDocsUnchanged(lastOp'.fingerprint))
       /\ Completes({"delete"}) =>
            (files' = files /\ OtherDocsUnchanged(lastOp'.ref.fingerprint))
       /\ Completes({"writeFile", "deleteFile"}) =>
            /\ docMetas' = docMetas
            /\ OtherFilesUnchanged(toFileRefKey(lastOp'.backend, lastOp'.ref))
       /\ lastOp' = lastOp => (docMetas' = docMetas /\ files' = files)]_vars

\* A writeFile on a store that holds documents and two other files.
C18_Witness ==
    /\ lastOp.op = "writeFile"
    /\ lastOp.threw = "none"
    /\ docMetas # <<>>
    /\ Cardinality(DOMAIN files) = 3

(***************************************************************************)
(* DialogWindowClient.create and CaptureController.startCapture            *)
(***************************************************************************)
OnceAt(call) == {i \in 1..Len(ipcLog) : ipcLog[i] = [ev |-> "once", call |-> call]}

\* C19: create sends its request only after the one-shot listener for the
\* request's response channel is registered, so the responder's answer never
\* arrives with no listener in place; the client create returns is built from
\* an answer the responder gave on that channel; and a call of create that has
\* started and has not returned can always move on by its own steps, by the
\* responder answering its request, or by the answer being emitted (checked
\* under SpecDialog).
C19_CreateCompletesOnResponse ==
    /\ \A i \in 1..Len(ipcLog) :
           /\ ipcLog[i].ev = "send" => \E j \in OnceAt(ipcLog[i].call) : j < i
           /\ (ipcLog[i].ev = "emit" /\ ipcLog[i].from = "responder") => ipcLog[i].heard
    /\ \A call \in CreateCalls :
           /\ createCalls[call].pc = "done" =>
                  createCalls[call].returned = DialogWindowReference(createRequest(call))
           /\ createCalls[call].pc \in {"awaitOnce", "awaitCreated"} => ENABLED Progress(call)

RegisteredAt(capture) ==
    {i \in 1..Len(captureLog) : captureLog[i] = [ev |-> "once", capture |-> capture, url |-> ""]}

\* 'did-finish-load' was emitted after the capture registered its listener
\* and before position i of the log.
FinishedLoadBefore(capture, i) ==
    \E j \in RegisteredAt(capture), k \in 1..(i - 1) :
        j < k /\ captureLog[k].ev = "did-finish-load"

\* C20: a call of startCapture registers its one-shot 'did-finish-load'
\* listener before it calls loadURL with the capture page; it calls loadPHZ,
\* and loads the PHZ URL, only after 'did-finish-load' was emitted following
\* that registration; a call whose listener has not been run is still waiting
\* in loadApp (checked under SpecCapture).
C20_ListenThenLoadThenPHZ ==
    /\ \A i \in 1..Len(captureLog) :
           LET e == captureLog[i] IN
           /\ (e.ev = "loadURL" /\ e.url = pageURL(CaptureUrl[e.capture])) =>
                  \E j \in RegisteredAt(e.capture) : j < i
           /\ (e.ev = "loadPHZ" \/ (e.ev = "loadURL" /\ e.url = registerForLoad(captureResult.path))) =>
                  FinishedLoadBefore(e.capture, i)
    /\ \A capture \in Captures :
           /\ capture \in didFinishLoad <=> captures[capture] = "awaitLoadApp"
           /\ captures[capture] \in {"loaded", "awaitRegisterForLoad", "done", "failed"} =>
                  FinishedLoadBefore(capture, Len(captureLog) + 1)

\* One call has loaded its PHZ while the other, whose page failed to load, is
\* still waiting for 'did-finish-load'.
C20_Witness ==
    /\ \E done \in Captures, waiting \in Captures :
           /\ captures[done] = "done"
           /\ captures[waiting] = "awaitLoadApp"
           /\ waiting \in didFinishLoad
    /\ loading = NotLoading
    /\ \E i \in 1..Len(captureLog) : captureLog[i].ev = "did-fail-load"
====
